---- MODULE Spec2Model ----
(***************************************************************************)
(* A model of main.py, the EPUB to Markdown chapter extractor.             *)
(*                                                                         *)
(* Text is modelled as a sequence of one-character strings, so that the    *)
(* regular-expression substitutions, trimming, truncation and formatting   *)
(* of the program are computed character by character.                     *)
(***************************************************************************)
EXTENDS Integers, Sequences, FiniteSets, TLC

VARIABLES
    pc,           \* position of the run, or of the function call under study
    arg,          \* argument of the function call under study
    ret,          \* its return value
    argv,         \* main: the parsed command line
    output_dir,   \* EPUBProcessor.output_dir
    book,         \* EPUBProcessor.book
    spine_items,  \* process_chapters: the fragments of the spine
    idx,          \* process_chapters, save_chapters: the loop's position
    chapters,     \* the (title, content) pairs accepted so far
    visited,      \* process_chapters: the positions handled, in order
    dir_made,     \* whether output_dir.mkdir was called and succeeded
    fs,           \* the chapter files of the destination: name -> body
    attempted,    \* save_chapters: the file names it tried to write, in order
    write_ok,     \* save_chapters: whether each of those writes succeeded
    readme,       \* the README.md of the destination
    error,        \* what main printed after "Error: "
    result        \* what main returned

runVars == <<argv, output_dir, book, spine_items, idx, chapters, visited,
             dir_made, fs, attempted, write_ok, readme, error, result>>

callVars == <<arg, ret>>

vars == <<pc, arg, ret, argv, output_dir, book, spine_items, idx, chapters,
          visited, dir_made, fs, attempted, write_ok, readme, error, result>>

(***************************************************************************)
(* Bounds of the model.                                                    *)
(***************************************************************************)
MaxBase == 3     \* longest base pattern of a title given to clean_filename
MaxNodes == 2    \* most nodes of a tree given to extract_title_from_content
MaxIndex == 110  \* largest chapter position given to the file naming
MaxSpine == 3    \* most entries of a book's spine

(***************************************************************************)
(* Characters.                                                             *)
(***************************************************************************)
Whitespace == {" ", "\n", "\t"}

UnsafeChars == {"<", ">", ":", "\"", "/", "\\", "|", "?", "*"}

\* The sequences over S of length 0..n.
SeqsUpTo(S, n) == UNION {[1..k -> S] : k \in 0..n}

\* s repeated n times.
Rep(s, n) == [i \in 1..(Len(s) * n) |-> s[((i - 1) % Len(s)) + 1]]

\* The indices 1..Len(s), in order.
Indices(s) == [i \in 1..Len(s) |-> i]

\* The characters of s at the indices kept, in their order.
At(s, kept) == [k \in 1..Len(kept) |-> s[kept[k]]]

(***************************************************************************)
(* str.strip(): leading and trailing whitespace removed.                   *)
(***************************************************************************)
Strip(s) ==
    IF \A i \in 1..Len(s) : s[i] \in Whitespace THEN <<>>
    ELSE LET first == CHOOSE i \in 1..Len(s) :
                          /\ s[i] \notin Whitespace
                          /\ \A k \in 1..(i - 1) : s[k] \in Whitespace
             last  == CHOOSE i \in 1..Len(s) :
                          /\ s[i] \notin Whitespace
                          /\ \A k \in (i + 1)..Len(s) : s[k] \in Whitespace
         IN  SubSeq(s, first, last)

(***************************************************************************)
(* clean_filename, line by line.                                           *)
(***************************************************************************)
\* re.sub(r'<[^>]+>', '', s): leftmost, non-overlapping matches are removed.
\* A match starts at a "<" that is followed by at least one character other
\* than ">" and then, later, by a ">"; it ends at the first ">" after the
\* "<".  So between two consecutive ">" (at prev and next) the match, if any,
\* runs from the first "<" in prev+1 .. next-2 to next.
RemoveTags(s) ==
    LET closes == SelectSeq(Indices(s), LAMBDA j : s[j] = ">")
        before(p) == Cardinality({k \in 1..Len(closes) : closes[k] < p})
        prev(p) == IF before(p) = 0 THEN 0 ELSE closes[before(p)]
        next(p) == IF before(p) = Len(closes) THEN 0 ELSE closes[before(p) + 1]
        upto(p) == IF p < next(p) - 2 THEN p ELSE next(p) - 2
        removed(p) ==
            /\ next(p) # 0
            /\ \E i \in (prev(p) + 1)..upto(p) : s[i] = "<"
    IN  At(s, SelectSeq(Indices(s), LAMBDA p : ~removed(p)))

\* re.sub(r'[<>:"/\\|?*]', '_', s): one underscore per matched character.
ReplaceUnsafe(s) ==
    [i \in 1..Len(s) |-> IF s[i] \in UnsafeChars THEN "_" ELSE s[i]]

\* re.sub(r'\s+', ' ', s): a run of whitespace becomes one space.
CollapseWhitespace(s) ==
    LET spaced == [i \in 1..Len(s) |-> IF s[i] \in Whitespace THEN " " ELSE s[i]]
    IN  At(spaced, SelectSeq(Indices(s), LAMBDA i :
            ~(s[i] \in Whitespace /\ i > 1 /\ s[i - 1] \in Whitespace)))

MaxFilenameLen == 100

\* The title is returned uncut.
TruncateNever(s) == s

\* title[:100] if len(title) > 100 else title
Truncate(s) ==
    IF Len(s) > MaxFilenameLen THEN SubSeq(s, 1, MaxFilenameLen) ELSE s

clean_filename(title) ==
    Truncate(Strip(CollapseWhitespace(ReplaceUnsafe(RemoveTags(title)))))

(***************************************************************************)
(* extract_title_from_content.  A parsed fragment (soup) is the sequence   *)
(* of its elements in document order, each with its tag and its            *)
(* get_text().                                                             *)
(***************************************************************************)
UpperCase == <<"A", "B", "C", "D", "E", "F", "G", "H", "I", "J", "K", "L", "M",
               "N", "O", "P", "Q", "R", "S", "T", "U", "V", "W", "X", "Y", "Z">>

LowerCase == <<"a", "b", "c", "d", "e", "f", "g", "h", "i", "j", "k", "l", "m",
               "n", "o", "p", "q", "r", "s", "t", "u", "v", "w", "x", "y", "z">>

\* str.lower()
Lower(s) ==
    [i \in 1..Len(s) |->
        IF \E k \in 1..26 : UpperCase[k] = s[i]
        THEN LowerCase[CHOOSE k \in 1..26 : UpperCase[k] = s[i]]
        ELSE s[i]]

Digits == <<"0", "1", "2", "3", "4", "5", "6", "7", "8", "9">>

IsDigit(c) == \E k \in 1..10 : Digits[k] = c

StartsWith(s, prefix) ==
    /\ Len(s) >= Len(prefix)
    /\ SubSeq(s, 1, Len(prefix)) = prefix

\* re.match(r'^(chapter|ch\.?)\s+\d+', s): one of the three prefixes, then one
\* or more whitespace characters, then a digit.
MatchesChapterPattern(s) ==
    \E prefix \in {<<"c", "h", "a", "p", "t", "e", "r">>, <<"c", "h", ".">>, <<"c", "h">>} :
        /\ StartsWith(s, prefix)
        /\ \E d \in (Len(prefix) + 2)..Len(s) :
              /\ IsDigit(s[d])
              /\ \A k \in (Len(prefix) + 1)..(d - 1) : s[k] \in Whitespace

\* The index of the last element with that tag, 0 without one.
FindLast(soup, tag) ==
    IF \E i \in 1..Len(soup) : soup[i].tag = tag
    THEN CHOOSE i \in 1..Len(soup) :
            /\ soup[i].tag = tag
            /\ \A k \in (i + 1)..Len(soup) : soup[k].tag # tag
    ELSE 0

\* soup.find(tag): the index of the first element with that tag, 0 for None.
Find(soup, tag) ==
    IF \E i \in 1..Len(soup) : soup[i].tag = tag
    THEN CHOOSE i \in 1..Len(soup) :
            /\ soup[i].tag = tag
            /\ \A k \in 1..(i - 1) : soup[k].tag # tag
    ELSE 0

HeadingTags == <<"h1", "h2", "h3", "title">>

IndicatorTags == {"p", "div", "span"}

UntitledChapter ==
    <<"U", "n", "t", "i", "t", "l", "e", "d", " ", "C", "h", "a", "p", "t", "e", "r">>

\* The second loop: the first p, div or span whose stripped text matches.
IndicatorTitle(soup) ==
    LET found == SelectSeq(soup, LAMBDA e :
                     /\ e.tag \in IndicatorTags
                     /\ MatchesChapterPattern(Lower(Strip(e.text))))
    IN  IF found # <<>> THEN Strip(found[1].text) ELSE UntitledChapter

RECURSIVE HeadingTitle(_, _)
\* The first loop, from the k-th heading tag on.
HeadingTitle(soup, k) ==
    IF k > Len(HeadingTags) THEN IndicatorTitle(soup)
    ELSE LET element == Find(soup, HeadingTags[k])
         IN  IF element # 0 /\ Strip(soup[element].text) # <<>>
             THEN Strip(soup[element].text)
             ELSE HeadingTitle(soup, k + 1)

extract_title_from_content(soup) == HeadingTitle(soup, 1)

(***************************************************************************)
(* html_to_markdown: the renderer's output, blank lines collapsed, trimmed.*)
(***************************************************************************)
\* re.sub(r'\n{3,}', '\n\n', s): of a run of newlines only the first two stay.
CollapseNewlines(s) ==
    At(s, SelectSeq(Indices(s), LAMBDA i :
        ~(s[i] = "\n" /\ i > 2 /\ s[i - 1] = "\n" /\ s[i - 2] = "\n")))

html_to_markdown(rendered) == Strip(CollapseNewlines(rendered))

(***************************************************************************)
(* The names of the output files.                                          *)
(***************************************************************************)
RECURSIVE Decimal(_)
\* The decimal digits of a natural number.
Decimal(n) ==
    IF n < 10 THEN <<Digits[n + 1]>>
    ELSE Decimal(n \div 10) \o <<Digits[(n % 10) + 1]>>

\* f"{i}": the decimal digits without padding.
FormatUnpadded(i) == Decimal(i)

\* The last two decimal digits.
FormatLastTwo(i) == <<Digits[((i \div 10) % 10) + 1], Digits[(i % 10) + 1]>>

\* f"{i:02d}": the decimal digits, padded with zeros to a width of 2.
Format02d(i) == IF Len(Decimal(i)) < 2 THEN <<"0">> \o Decimal(i) ELSE Decimal(i)

\* f"{i:02d}_{clean_title}.md"
ChapterFilename(i, title) ==
    Format02d(i) \o <<"_">> \o clean_filename(title) \o <<".", "m", "d">>

ReadmeName == <<"R", "E", "A", "D", "M", "E", ".", "m", "d">>

\* f"# {title}\n{content}"
FullContentNoBlankLine(title, content) == <<"#", " ">> \o title \o <<"\n">> \o content

\* f"# {title}\n\n{content}"
FullContent(title, content) == <<"#", " ">> \o title \o <<"\n", "\n">> \o content

\* ', '.join(parts)
RECURSIVE Join(_)
Join(parts) ==
    IF parts = <<>> THEN <<>>
    ELSE IF Len(parts) = 1 THEN parts[1]
    ELSE parts[1] \o <<",", " ">> \o Join(Tail(parts))

Unknown == <<"U", "n", "k", "n", "o", "w", "n">>

(***************************************************************************)
(* The inputs of a run: the command line and what the container holds.     *)
(***************************************************************************)
EpubSuffix == <<".", "e", "p", "u", "b">>

\* args after parse_args: whether epub_file exists, its suffix, and --output
\* ("" when the flag is absent).
Argvs ==
    { [exists |-> FALSE, suffix |-> EpubSuffix, output |-> ""],
      [exists |-> TRUE, suffix |-> <<".", "t", "x", "t">>, output |-> ""],
      [exists |-> TRUE, suffix |-> <<".", "E", "P", "U", "B">>, output |-> ""],
      [exists |-> TRUE, suffix |-> EpubSuffix, output |-> "out"] }

\* Parsed fragments: a first-level heading, and a second-level heading whose
\* text is markup only, behind a paragraph.
SoupA == << [tag |-> "h1", text |-> <<" ", "C", "h", " ", "1", "\n">>] >>

SoupB == << [tag |-> "p", text |-> <<"x">>],
            [tag |-> "h2", text |-> <<"<", "b", ">">>] >>

\* What the renderer returns: a body with a run of newlines, and blank output.
RenderedBody == <<"\n", "a", "\n", "\n", "\n", "\n", "b", " ">>

RenderedBlank == <<"\n", " ", "\n", "\n", "\n">>

MinChapterLen == 100

\* A spine item of type EpubHtml: where handling it raises ("none" when it
\* does not), its parsed content, the length of its stripped plain text and
\* the renderer's output for it.
Fragments ==
    { [fail |-> f, soup |-> SoupA, text_len |-> MinChapterLen, rendered |-> RenderedBody] :
        f \in {"decode", "parse", "convert"} }
    \cup
    { [fail |-> "none", soup |-> s, text_len |-> MinChapterLen, rendered |-> RenderedBody] :
        s \in {SoupA, SoupB} }
    \cup
    { [fail |-> "none", soup |-> SoupA, text_len |-> MinChapterLen - 1, rendered |-> RenderedBody],
      [fail |-> "none", soup |-> SoupA, text_len |-> MinChapterLen, rendered |-> RenderedBlank] }

NoFragment == [fail |-> "none", soup |-> <<>>, text_len |-> 0, rendered |-> <<>>]

\* An entry of book.spine: the item its id names is an EpubHtml, is an item of
\* another type, or is missing from the book's items.
SpineEntries ==
    { [item |-> "html", content |-> f] : f \in Fragments }
    \cup { [item |-> "other", content |-> NoFragment],
           [item |-> "missing", content |-> NoFragment] }

\* The Dublin Core metadata of a container, as the lists get_metadata returns
\* for title, creator and language: all three present, and each one missing.
Metadatas ==
    { [title |-> << <<"T">> >>, creator |-> << <<"A">>, <<"B">> >>, language |-> << <<"e", "n">> >>],
      [title |-> <<>>, creator |-> << <<"A">>, <<"B">> >>, language |-> << <<"e", "n">> >>],
      [title |-> << <<"T">> >>, creator |-> <<>>, language |-> << <<"e", "n">> >>],
      [title |-> << <<"T">> >>, creator |-> << <<"A">>, <<"B">> >>, language |-> <<>>] }

\* What read_epub returns: the metadata and the spine.
Books ==
    { [loaded |-> TRUE, title |-> m.title, creator |-> m.creator,
       language |-> m.language, spine |-> s] :
        m \in Metadatas, s \in SeqsUpTo(SpineEntries, MaxSpine) }

NoBook == [loaded |-> FALSE, title |-> <<>>, creator |-> <<>>, language |-> <<>>, spine |-> <<>>]

NoReadme == [exists |-> FALSE, title |-> <<>>, author |-> <<>>, language |-> <<>>,
             count |-> 0, toc |-> <<>>]

NoResult == -1

(***************************************************************************)
(* The run: main, then EPUBProcessor.process.                              *)
(***************************************************************************)
RunIdle ==
    /\ output_dir = ""
    /\ book = NoBook
    /\ spine_items = <<>>
    /\ idx = 0
    /\ chapters = <<>>
    /\ visited = <<>>
    /\ dir_made = FALSE
    /\ fs = <<>>
    /\ attempted = <<>>
    /\ write_ok = <<>>
    /\ readme = NoReadme
    /\ error = "none"
    /\ result = NoResult

Init ==
    /\ pc = "main"
    /\ arg = <<>>
    /\ ret = <<>>
    /\ argv \in Argvs
    /\ RunIdle

\* main returns code after printing message.
Return(code, message) ==
    /\ pc' = "done"
    /\ result' = code
    /\ error' = message

\* main up to processor.process(): the two checks of the input path, the
\* processor's construction and the override of its output directory.
Main ==
    /\ pc = "main"
    /\ IF ~argv.exists
       THEN Return(1, "not_found") /\ UNCHANGED output_dir
       ELSE IF Lower(argv.suffix) # EpubSuffix
            THEN Return(1, "bad_suffix") /\ UNCHANGED output_dir
            ELSE /\ output_dir' = IF argv.output # "" THEN argv.output ELSE "book_chapters"
                 /\ pc' = "load"
                 /\ UNCHANGED <<result, error>>
    /\ UNCHANGED <<callVars, argv, book, spine_items, idx, chapters, visited,
                   dir_made, fs, attempted, write_ok, readme>>

\* load_epub: read_epub raises, or it returns a book and the print reads the
\* first title; any exception is raised again and ends main with 1.
LoadEpub ==
    /\ pc = "load"
    /\ \/ /\ Return(1, "load")
          /\ UNCHANGED book
       \/ \E b \in Books :
            /\ book' = b
            /\ IF b.title = <<>>
               THEN Return(1, "load")
               ELSE pc' = "spine" /\ UNCHANGED <<result, error>>
    /\ UNCHANGED <<callVars, argv, output_dir, spine_items, idx, chapters, visited,
                   dir_made, fs, attempted, write_ok, readme>>

\* get_spine_items: the spine entries whose item is found and is an EpubHtml.
get_spine_items(b) ==
    LET html == SelectSeq(b.spine, LAMBDA e : e.item = "html")
    IN  [k \in 1..Len(html) |-> html[k].content]

\* process_chapters up to its loop.
GetSpineItems ==
    /\ pc = "spine"
    /\ spine_items' = get_spine_items(book)
    /\ chapters' = <<>>
    /\ idx' = 1
    /\ pc' = "chapters"
    /\ UNCHANGED <<callVars, argv, output_dir, book, visited, dir_made, fs,
                   attempted, write_ok, readme, error, result>>

\* The loop body with the length test as len(text_content) <= 100.
ItemOutcomeInclusive(item) ==
    IF item.fail \in {"decode", "parse"} THEN "error"
    ELSE IF item.text_len <= MinChapterLen THEN "short"
    ELSE IF item.fail = "convert" THEN "error"
    ELSE IF Strip(html_to_markdown(item.rendered)) = <<>> THEN "empty"
    ELSE "ok"

\* The body of the loop of process_chapters for one item, in the order of the
\* code: "error" when an exception is caught, "short" and "empty" for the two
\* skips, "ok" when the chapter is appended.
ItemOutcome(item) ==
    IF item.fail \in {"decode", "parse"} THEN "error"
    ELSE IF item.text_len < MinChapterLen THEN "short"
    ELSE IF item.fail = "convert" THEN "error"
    ELSE IF Strip(html_to_markdown(item.rendered)) = <<>> THEN "empty"
    ELSE "ok"

\* One pass of the loop of process_chapters.
ProcessItem ==
    /\ pc = "chapters"
    /\ idx <= Len(spine_items)
    /\ LET item == spine_items[idx]
       IN  chapters' =
               IF ItemOutcome(item) = "ok"
               THEN Append(chapters, <<extract_title_from_content(item.soup),
                                       html_to_markdown(item.rendered)>>)
               ELSE chapters
    /\ visited' = Append(visited, idx)
    /\ idx' = idx + 1
    /\ UNCHANGED <<pc, callVars, argv, output_dir, book, spine_items, dir_made, fs,
                   attempted, write_ok, readme, error, result>>

\* process without the return for an empty list of chapters.
SaveChaptersBeginAlways ==
    /\ pc = "chapters"
    /\ idx > Len(spine_items)
    /\ \/ /\ dir_made' = TRUE
          /\ idx' = 1
          /\ pc' = "save"
          /\ UNCHANGED <<result, error>>
       \/ /\ Return(1, "mkdir")
          /\ UNCHANGED <<dir_made, idx>>
    /\ UNCHANGED <<callVars, argv, output_dir, book, spine_items, chapters, visited,
                   fs, attempted, write_ok, readme>>

\* process after process_chapters returned: the return when there is no
\* chapter, else save_chapters up to its loop (the mkdir may raise).
SaveChaptersBegin ==
    /\ pc = "chapters"
    /\ idx > Len(spine_items)
    /\ IF chapters = <<>>
       THEN Return(0, "none") /\ UNCHANGED <<dir_made, idx>>
       ELSE \/ /\ dir_made' = TRUE
               /\ idx' = 1
               /\ pc' = "save"
               /\ UNCHANGED <<result, error>>
            \/ /\ Return(1, "mkdir")
               /\ UNCHANGED <<dir_made, idx>>
    /\ UNCHANGED <<callVars, argv, output_dir, book, spine_items, chapters, visited,
                   fs, attempted, write_ok, readme>>

\* The file system after write_text(body) to name: written; not opened;
\* or created and then not written.
WriteText(files, name, body, outcome) ==
    IF outcome = "fail" THEN files
    ELSE [n \in (DOMAIN files) \cup {name} |->
             IF n = name
             THEN (IF outcome = "ok" THEN body ELSE <<>>)
             ELSE files[n]]

\* One pass of the loop of save_chapters.
SaveChapter ==
    /\ pc = "save"
    /\ idx <= Len(chapters)
    /\ LET title == chapters[idx][1]
           content == chapters[idx][2]
           filename == ChapterFilename(idx, title)
       IN  \E outcome \in {"ok", "fail", "partial"} :
              /\ fs' = WriteText(fs, filename, FullContent(title, content), outcome)
              /\ attempted' = Append(attempted, filename)
              /\ write_ok' = Append(write_ok, outcome = "ok")
    /\ idx' = idx + 1
    /\ UNCHANGED <<pc, callVars, argv, output_dir, book, spine_items, chapters,
                   visited, dir_made, readme, error, result>>

\* get_book_info for a loaded book.
get_book_info(b) ==
    [title |-> IF b.title = <<>> THEN Unknown ELSE b.title[1],
     author |-> Join(b.creator),
     language |-> IF b.language = <<>> THEN Unknown ELSE b.language[1]]

\* The line with the file name built from the title as it is.
TocLineRawTitle(i, title) ==
    [number |-> i,
     text |-> title,
     target |-> <<".", "/">> \o Format02d(i) \o <<"_">> \o title \o <<".", "m", "d">>]

\* f"{i}. [{title}](./{filename})\n" with the file name derived as in the loop
\* of create_index_file.
TocLine(i, title) ==
    [number |-> i,
     text |-> title,
     target |-> <<".", "/">> \o Format02d(i) \o <<"_">> \o clean_filename(title)
                    \o <<".", "m", "d">>]

\* index_content
IndexContent(b, chaps) ==
    [exists |-> TRUE,
     title |-> get_book_info(b).title,
     author |-> get_book_info(b).author,
     language |-> get_book_info(b).language,
     count |-> Len(chaps),
     toc |-> [i \in 1..Len(chaps) |-> TocLine(i, chaps[i][1])]]

\* create_index_file and the end of main: README.md is written and main
\* returns 0, or write_text raises and main returns 1.
CreateIndexFile ==
    /\ pc = "save"
    /\ idx > Len(chapters)
    /\ \/ /\ readme' = IndexContent(book, chapters)
          /\ fs' = [n \in (DOMAIN fs) \ {ReadmeName} |-> fs[n]]
          /\ Return(0, "none")
       \/ /\ Return(1, "index_write")
          /\ UNCHANGED <<readme, fs>>
    /\ UNCHANGED <<callVars, argv, output_dir, book, spine_items, idx, chapters,
                   visited, dir_made, attempted, write_ok>>

Next ==
    \/ Main
    \/ LoadEpub
    \/ GetSpineItems
    \/ ProcessItem
    \/ SaveChaptersBegin
    \/ SaveChapter
    \/ CreateIndexFile

Spec == Init /\ [][Next]_vars

(***************************************************************************)
(* The pure functions under study: the arguments are drawn at the start    *)
(* and one call is made; no run takes place.                               *)
(***************************************************************************)
NoArgv == [exists |-> FALSE, suffix |-> <<>>, output |-> ""]

NoRun == argv = NoArgv /\ RunIdle

\* Titles given to clean_filename: a base pattern, and the pattern repeated
\* until it passes the limit of 100 characters.
TitleAlphabet == {"<", ">", "a", " ", "\n", "/"}

TitleInputs ==
    LET bases == SeqsUpTo(TitleAlphabet, MaxBase)
    IN  bases \cup {Rep(b, (MaxFilenameLen \div Len(b)) + 1) : b \in bases \ {<<>>}}

InitClean ==
    /\ pc = "clean_filename"
    /\ arg \in TitleInputs
    /\ ret = <<>>
    /\ NoRun

CallCleanFilename ==
    /\ pc = "clean_filename"
    /\ ret' = clean_filename(arg)
    /\ pc' = "cleaned"
    /\ UNCHANGED <<arg, runVars>>

NextClean == CallCleanFilename

SpecClean == InitClean /\ [][NextClean]_vars

\* Trees given to extract_title_from_content.
NodeTags == {"h1", "h2", "h3", "title", "p", "div", "span", "em"}

NodeTexts ==
    { <<" ">>,
      <<" ", "A", "\n">>,
      <<"C", "h", ".", " ", "7">>,
      <<"\t", "C", "H", "A", "P", "T", "E", "R", "\n", " ", "1", "2", "x">>,
      <<"c", "h", "7">> }

Nodes == {[tag |-> g, text |-> x] : g \in NodeTags, x \in NodeTexts}

InitTitle ==
    /\ pc = "extract_title_from_content"
    /\ arg \in SeqsUpTo(Nodes, MaxNodes)
    /\ ret = <<>>
    /\ NoRun

CallExtractTitle ==
    /\ pc = "extract_title_from_content"
    /\ ret' = extract_title_from_content(arg)
    /\ pc' = "titled"
    /\ UNCHANGED <<arg, runVars>>

NextTitle == CallExtractTitle

SpecTitle == InitTitle /\ [][NextTitle]_vars

\* Two chapters of one list: their positions and their titles.
ChapterTitles == { <<"a">>, <<"<", "b", ">">> }

InitNames ==
    /\ pc = "filenames"
    /\ arg \in {[i |-> i, title_i |-> x, j |-> j, title_j |-> y] :
                  i \in 1..MaxIndex, j \in 1..MaxIndex, x \in ChapterTitles, y \in ChapterTitles}
    /\ arg.i < arg.j
    /\ ret = <<>>
    /\ NoRun

CallChapterFilename ==
    /\ pc = "filenames"
    /\ ret' = <<ChapterFilename(arg.i, arg.title_i), ChapterFilename(arg.j, arg.title_j)>>
    /\ pc' = "named"
    /\ UNCHANGED <<arg, runVars>>

NextNames == CallChapterFilename

SpecNames == InitNames /\ [][NextNames]_vars

(***************************************************************************)
(* Properties of the pure functions.                                       *)
(***************************************************************************)
\* C6: for every input string, clean_filename returns a string that contains
\* none of the characters < > : " / \ | ? * and whose length is at most 100.
CleanFilenameSafe ==
    pc = "cleaned" =>
        /\ \A i \in 1..Len(ret) : ret[i] \notin {"<", ">", ":", "\"", "/", "\\", "|", "?", "*"}
        /\ Len(ret) <= 100

\* A title of more than 100 characters, some of them unsafe, was cut to 100.
CleanFilenameSafeWitness ==
    /\ pc = "cleaned"
    /\ Len(arg) > 100
    /\ \E i \in 1..Len(arg) : arg[i] \in UnsafeChars
    /\ Len(ret) = 100

\* C7: within one run all output file names are pairwise distinct for any
\* chapter titles, also past 99 chapters, and no chapter file is named
\* README.md.
FilenamesDistinct ==
    pc = "named" =>
        /\ ret[1] # ret[2]
        /\ ret[1] # ReadmeName
        /\ ret[2] # ReadmeName

\* The first and the 101st chapter, with equal titles, were named.
FilenamesDistinctWitness ==
    /\ pc = "named"
    /\ arg.i = 1
    /\ arg.j = 101
    /\ arg.title_i = arg.title_j

\* The stripped text of the first element with the tag, <<>> without one.
FirstText(soup, tag) ==
    IF \E i \in 1..Len(soup) : soup[i].tag = tag
    THEN Strip(soup[CHOOSE i \in 1..Len(soup) :
                        soup[i].tag = tag /\ \A k \in 1..(i - 1) : soup[k].tag # tag].text)
    ELSE <<>>

\* The element is a p, div or span whose stripped text matches the pattern.
IsIndicator(e) ==
    /\ e.tag \in {"p", "div", "span"}
    /\ MatchesChapterPattern(Lower(Strip(e.text)))

\* C9: extract_title_from_content returns the stripped text of the first h1
\* if it is not blank, else of the first h2, the first h3, the first title;
\* else the stripped text of the first p, div or span in document order that
\* matches the chapter pattern; else "Untitled Chapter"; and never an empty
\* title.
TitleFollowsFallbackChain ==
    pc = "titled" =>
        LET h1 == FirstText(arg, "h1")
            h2 == FirstText(arg, "h2")
            h3 == FirstText(arg, "h3")
            tt == FirstText(arg, "title")
        IN  /\ ret # <<>>
            /\ h1 # <<>> => ret = h1
            /\ (h1 = <<>> /\ h2 # <<>>) => ret = h2
            /\ (h1 = <<>> /\ h2 = <<>> /\ h3 # <<>>) => ret = h3
            /\ (h1 = <<>> /\ h2 = <<>> /\ h3 = <<>> /\ tt # <<>>) => ret = tt
            /\ (h1 = <<>> /\ h2 = <<>> /\ h3 = <<>> /\ tt = <<>>) =>
                  /\ \A i \in 1..Len(arg) :
                        (IsIndicator(arg[i]) /\ \A k \in 1..(i - 1) : ~IsIndicator(arg[k]))
                            => ret = Strip(arg[i].text)
                  /\ (\A i \in 1..Len(arg) : ~IsIndicator(arg[i]))
                        => ret = <<"U", "n", "t", "i", "t", "l", "e", "d", " ",
                                   "C", "h", "a", "p", "t", "e", "r">>

\* A second-level heading in front of a first-level one: the h1 was returned.
TitleFollowsFallbackChainWitness ==
    /\ pc = "titled"
    /\ Len(arg) = 2
    /\ arg[1].tag = "h2"
    /\ arg[2].tag = "h1"
    /\ Strip(arg[1].text) # <<>>
    /\ Strip(arg[2].text) # <<>>
    /\ Strip(arg[1].text) # Strip(arg[2].text)
    /\ ret = Strip(arg[2].text)

(***************************************************************************)
(* Properties of the run.                                                  *)
(***************************************************************************)
\* load_epub returned without raising, so process_chapters has been called.
Loaded == book.loaded /\ book.title # <<>>

\* C1: for each of the fields title, author and language: when the container
\* has no value for it, the run does not fail because of it and README.md
\* shows "Unknown" for it.
MissingMetadataIsUnknown ==
    (pc = "done" /\ book.loaded) =>
        /\ error # "load"
        /\ readme.exists =>
              /\ book.title = <<>> => readme.title = Unknown
              /\ book.creator = <<>> => readme.author = Unknown
              /\ book.language = <<>> => readme.language = Unknown

\* C2: main returns 1 only for a pre-flight or a load-time error; a failure
\* of a fragment or of the write of an output file, README.md included, never
\* makes it return 1.  (The creation of the destination directory is neither
\* a fragment nor a file write, and a failure of it is let pass here.)
OnlyPreflightAndLoadFail ==
    (pc = "done" /\ result = 1) => error \in {"not_found", "bad_suffix", "load", "mkdir"}

\* A fragment qualifies: nothing raises, the stripped text has 100 characters
\* or more, and the markdown has a character that trimming leaves.
Qualifies(f) ==
    /\ f.fail = "none"
    /\ f.text_len >= 100
    /\ \E i \in 1..Len(f.rendered) : f.rendered[i] \notin Whitespace

\* The accepted ones among the first n fragments, in reading order.
AcceptedUpTo(n) == SelectSeq(SubSeq(spine_items, 1, n), Qualifies)

\* The number of fragments process_chapters has handled.
Handled ==
    IF pc \in {"main", "load", "spine"} THEN 0
    ELSE IF pc = "chapters" THEN idx - 1
    ELSE Len(spine_items)

\* C3: process_chapters visits every spine fragment once, in reading order,
\* and its chapters are exactly those of the fragments for which nothing
\* raised, the stripped text has at least 100 characters and the markdown is
\* not empty, in reading order; a skipped fragment neither ends the loop nor
\* removes a chapter.
ChaptersAreQualifyingFragments ==
    LET accepted == AcceptedUpTo(Handled)
    IN  /\ visited = [i \in 1..Handled |-> i]
        /\ Len(chapters) = Len(accepted)
        /\ \A k \in 1..Len(chapters) :
              /\ chapters[k][1] = extract_title_from_content(accepted[k].soup)
              /\ chapters[k][2] = html_to_markdown(accepted[k].rendered)
        /\ (pc = "save" \/ (pc = "done" /\ Loaded)) => Handled = Len(spine_items)

\* All fragments were handled, an accepted one lies behind a rejected one and
\* a failing one, and a rejected one behind an accepted one.
ChaptersAreQualifyingFragmentsWitness ==
    /\ pc = "save"
    /\ Len(spine_items) = 3
    /\ spine_items[1].fail = "decode"
    /\ Qualifies(spine_items[2])
    /\ spine_items[3].text_len = 99
    /\ Len(chapters) = 1

\* The part of a file name before its first underscore.
NumberPrefix(name) ==
    SubSeq(name, 1, (CHOOSE i \in 1..Len(name) :
                        name[i] = "_" /\ \A k \in 1..(i - 1) : name[k] # "_") - 1)

\* C4: chapter files are numbered by position among the accepted fragments:
\* the names save_chapters tries are prefixed 01, 02, ..., k in order, k the
\* number of accepted fragments, whatever was rejected in between.
NumberedByAcceptedPosition ==
    /\ \A j \in 1..Len(attempted) :
          NumberPrefix(attempted[j]) = <<Digits[(j \div 10) + 1], Digits[(j % 10) + 1]>>
    /\ (pc = "done" /\ dir_made) =>
          Len(attempted) = Cardinality({i \in 1..Len(spine_items) : Qualifies(spine_items[i])})

\* Two files were tried for a spine whose second fragment was rejected.
NumberedByAcceptedPositionWitness ==
    /\ pc = "done"
    /\ Len(spine_items) = 3
    /\ ~Qualifies(spine_items[2])
    /\ Len(attempted) = 2
    /\ NumberPrefix(attempted[2]) = <<"0", "2">>

\* C5: when process_chapters returns no chapter, the run creates no
\* directory, writes no chapter file and no README.md, and main returns 0.
NoChaptersNoOutput ==
    (pc = "done" /\ Loaded /\ chapters = <<>>) =>
        /\ result = 0
        /\ error = "none"
        /\ ~dir_made
        /\ attempted = <<>>
        /\ DOMAIN fs = {}
        /\ ~readme.exists

\* A run over a spine of three fragments, none accepted, has ended.
NoChaptersNoOutputWitness ==
    /\ pc = "done"
    /\ Loaded
    /\ Len(spine_items) = 3
    /\ chapters = <<>>
    /\ result = 0

\* C8: README.md has one line per chapter, in order, the target of line i is
\* the file name save_chapters used for chapter i, and README.md is written
\* only after every chapter write was tried.
IndexLinksMatchFiles ==
    readme.exists =>
        /\ Len(attempted) = Len(chapters)
        /\ Len(readme.toc) = Len(chapters)
        /\ \A i \in 1..Len(chapters) :
              /\ readme.toc[i].number = i
              /\ readme.toc[i].text = chapters[i][1]
              /\ readme.toc[i].target = <<".", "/">> \o attempted[i]

\* README.md lists three chapters, one of them with a title of markup only.
IndexLinksMatchFilesWitness ==
    /\ readme.exists
    /\ Len(readme.toc) = 3
    /\ \E i \in 1..3 : chapters[i][1] = <<"<", "b", ">">>

\* C10 as stated: where main returned 0 and README.md was written, each file
\* the table of contents links to exists with the body "# <title>\n\n<content>"
\* of its chapter, also when chapter writes failed.
EveryLinkedFileExists ==
    (pc = "done" /\ result = 0 /\ readme.exists) =>
        \A i \in 1..Len(readme.toc) :
            /\ attempted[i] \in DOMAIN fs
            /\ fs[attempted[i]] = <<"#", " ">> \o chapters[i][1] \o <<"\n", "\n">> \o chapters[i][2]

\* C10 as amended: where main returned 0 and README.md was written, each file
\* the table of contents links to whose write succeeded exists with the body
\* "# <title>\n\n<content>" of its chapter.
EveryWrittenLinkedFileExists ==
    (pc = "done" /\ result = 0 /\ readme.exists) =>
        \A i \in 1..Len(readme.toc) :
            write_ok[i] =>
                /\ attempted[i] \in DOMAIN fs
                /\ fs[attempted[i]] = <<"#", " ">> \o chapters[i][1] \o <<"\n", "\n">> \o chapters[i][2]

\* README.md links to a file that was written and to one whose write failed.
EveryWrittenLinkedFileExistsWitness ==
    /\ pc = "done"
    /\ result = 0
    /\ readme.exists
    /\ \E i, j \in 1..Len(readme.toc) : write_ok[i] /\ ~write_ok[j]

====
